---- MODULE Spec2Model ----
(***************************************************************************)
(* State-machine model of src/gpt_signal_api.py: the guard sequence        *)
(* (forbidden hours, cooldown, dedup, daily risk), the enrichment caches,  *)
(* the quality/news gates, the model call, the journal and the notifier,   *)
(* driven by the four inbound flows (/gpt-signal, /tv-alert, /tg-webhook   *)
(* text and /tg-webhook photo).                                            *)
(*                                                                         *)
(* Time is the wall clock in whole seconds.  Requests are handled one      *)
(* after another; a request is stepped through its handler statement by    *)
(* statement (pc), and the clock advances between requests.                *)
(***************************************************************************)
EXTENDS Integers, Sequences, FiniteSets, TLC

\* ------------------------------------------------------------------ bounds
MaxReq == 3
MaxTicks == 2
\* provider replies, over a run, that are not the usual one
MaxOdd == 1

\* ------------------------------------------------------- program constants
QUALITY_MIN_SCORE == 1
RISK_PER_TRADE_PCT == 2
MAX_DAILY_RISK_PCT == 6
JOURNAL_WINDOW == 300
LIQ_TTL == 60
NEWS_TTL == 60
NEWS_BLOCK_ENABLED == TRUE
FORWARD_TO_CHANNEL == TRUE
CHANNEL_ID == "main"
JOURNAL_CHANNEL_ID == "archive"
TV_SECRET == "change_me"
\* the default of FORBIDDEN_UTC_HOURS, the string "0-3", as its characters
ForbiddenDefault == <<"0", "-", "3">>

\* (COOLDOWN_SECONDS, DEDUP_WINDOW_SECONDS) as read from the environment at
\* import: the defaults, and a deployment whose dedup window is the longer one
Configs == { <<300, 180>>, <<100, 300>> }

SecondsPerHour == 60 * 60
SecondsPerDay == 24 * SecondsPerHour
\* 04:00:00 UTC of day 1, the first second after the forbidden hours
StartTimes == { SecondsPerDay + 4 * SecondsPerHour }
\* the clock advances between requests by one of these; twenty hours lead
\* from 04:00 to midnight (a new date, inside the forbidden hours) and from
\* midnight to 20:00
Deltas == { 100, 200, 20 * SecondsPerHour }

VARIABLES
  now,                    \* time.time(), whole seconds
  COOLDOWN_SECONDS,       \* configuration, fixed at import
  DEDUP_WINDOW_SECONDS,   \* configuration, fixed at import
  FORBIDDEN_UTC_HOURS,    \* configuration, fixed at import: a string
  OPENAI_API_KEY,         \* configuration, fixed at import: "" is None
  _last_sig_time,         \* dict symbol -> time
  _last_sig_hash,         \* dict symbol -> (hash, time)
  _daily_risk_used,
  _daily_risk_day,        \* 0 is None
  _journal_mem,           \* list of rows
  csv,                    \* rows of the CSV file, header first; <<>>: no file
  _liq_cache,             \* [t, count]
  _news_cache,            \* [t, by_symbol]
  newsAt,                 \* symbol -> when its posts were last fetched
  thr,                    \* the threads inside throttle_and_dedup at once
  pc,                     \* position of the request in flight
  req,                    \* the request in flight
  loc,                    \* locals of run_signal_flow / run_signal_from_vision
  res,                    \* what the pipeline returned to its caller
  http,                   \* status code the endpoint answered
  trace,                  \* what the request in flight has done so far
  pre,                    \* the state the request in flight started from
  passes,                 \* symbol -> the last two alerts throttle_and_dedup let
                          \* through: time, hash, cooldown rejections since
  riskLog,                \* the UTC date of each loss recorded in the budget
  nreq,
  nticks,
  odd                     \* provider replies so far that were not the usual one

vars == << now, COOLDOWN_SECONDS, DEDUP_WINDOW_SECONDS, FORBIDDEN_UTC_HOURS,
           OPENAI_API_KEY, _last_sig_time,
           _last_sig_hash, _daily_risk_used, _daily_risk_day, _journal_mem, csv,
           _liq_cache, _news_cache, newsAt, thr, pc, req, loc, res, http, trace, pre, passes,
           riskLog, nreq, nticks, odd >>

\* ----------------------------------------------------------------- values
None == [ok |-> FALSE, v |-> 0]
Some(x) == [ok |-> TRUE, v |-> x]

\* a reason string: its fixed text and the number formatted into it
Reason(msg, n) == [msg |-> msg, n |-> n]
NoReason == Reason("None", 0)

\* datetime.utcnow().hour and datetime.now(timezone.utc).date()
UtcHour(t) == (t % SecondsPerDay) \div SecondsPerHour
UtcDate(t) == (t \div SecondsPerDay) + 1

\* ------------------------------------------------------- forbidden_hours
Digits == {"0", "1", "2", "3", "4", "5", "6", "7", "8", "9"}
DigitVal(c) ==
  CASE c = "0" -> 0 [] c = "1" -> 1 [] c = "2" -> 2 [] c = "3" -> 3
    [] c = "4" -> 4 [] c = "5" -> 5 [] c = "6" -> 6 [] c = "7" -> 7
    [] c = "8" -> 8 [] c = "9" -> 9

\* str.split(sep) for a one-character separator
RECURSIVE SplitOn(_, _)
SplitOn(s, sep) ==
  IF \A i \in 1..Len(s) : s[i] # sep
    THEN << s >>
    ELSE LET i == CHOOSE k \in 1..Len(s) :
                    s[k] = sep /\ \A j \in 1..(k - 1) : s[j] # sep
         IN  << SubSeq(s, 1, i - 1) >> \o SplitOn(SubSeq(s, i + 1, Len(s)), sep)

\* str.strip()
RECURSIVE Strip(_)
Strip(s) ==
  IF s # << >> /\ Head(s) = " " THEN Strip(Tail(s))
  ELSE IF s # << >> /\ s[Len(s)] = " " THEN Strip(SubSeq(s, 1, Len(s) - 1))
  ELSE s

\* str.isdigit()
IsDigit(s) == s # << >> /\ \A i \in 1..Len(s) : s[i] \in Digits

\* int(s) of a string of digits, surrounding blanks allowed
RECURSIVE DigitsToInt(_)
DigitsToInt(s) ==
  IF s = << >> THEN 0
  ELSE 10 * DigitsToInt(SubSeq(s, 1, Len(s) - 1)) + DigitVal(s[Len(s)])
ToInt(s) == DigitsToInt(Strip(s))

\* the loop of forbidden_hours over the comma-separated parts:
\* "True", "False", or "ValueError" (a, b = part.split("-") with three pieces)
RECURSIVE ForbiddenParts(_, _)
ForbiddenParts(parts, h) ==
  IF parts = << >> THEN "False"
  ELSE
    LET part == Strip(Head(parts))
        rest == Tail(parts)
    IN  IF part = << >> THEN ForbiddenParts(rest, h)
        ELSE IF \E i \in 1..Len(part) : part[i] = "-"
          THEN LET ab == SplitOn(part, "-")
               IN  IF Len(ab) # 2 THEN "ValueError"
                   ELSE IF /\ IsDigit(Strip(ab[1]))
                           /\ IsDigit(Strip(ab[2]))
                           /\ ToInt(ab[1]) <= h
                           /\ h <= ToInt(ab[2])
                     THEN "True"
                     ELSE ForbiddenParts(rest, h)
          ELSE IF IsDigit(part) /\ ToInt(part) = h
                 THEN "True"
                 ELSE ForbiddenParts(rest, h)

forbidden_hours ==
  IF FORBIDDEN_UTC_HOURS = << >> THEN "False"
  ELSE ForbiddenParts(SplitOn(FORBIDDEN_UTC_HOURS, ","), UtcHour(now))

\* ----------------------------------------------------- throttle_and_dedup
\* f"{symbol}|{tf}|{setup}|{price}|{context_text}"
payload_for_hash(symbol, tf, setup, price, ctx) ==
  << symbol, "|", tf, "|", setup, "|", price, "|", ctx >>

\* hashlib.md5(...).hexdigest(): equal digests for equal payloads, and (md5
\* taken as collision free) only for those
md5(payload) == << "md5", payload >>

\* _last_sig_time.get(symbol, 0)
LastSigTimeGet(symbol) ==
  IF symbol \in DOMAIN _last_sig_time THEN _last_sig_time[symbol] ELSE 0

\* {}
EmptyDict == [x \in {} |-> 0]

DictPut(d, k, v) == [x \in (DOMAIN d) \cup {k} |-> IF x = k THEN v ELSE d[x]]

\* Faulty variants of throttle_and_dedup, against which the properties below
\* are tried: each must be told apart from the code.
\* (1) an alert let through leaves no time behind
throttle_and_dedup_untimed(symbol, payload) ==
  LET t0 == LastSigTimeGet(symbol)
      h  == md5(payload)
  IN  IF now - t0 < COOLDOWN_SECONDS
        THEN [ret  |-> Reason("COOLDOWN active", COOLDOWN_SECONDS - (now - t0)),
              time |-> _last_sig_time, hash |-> _last_sig_hash]
      ELSE IF /\ symbol \in DOMAIN _last_sig_hash
              /\ _last_sig_hash[symbol].h = h
              /\ now - _last_sig_hash[symbol].t < DEDUP_WINDOW_SECONDS
        THEN [ret  |-> Reason("DUPLICATE within window", 0),
              time |-> _last_sig_time, hash |-> _last_sig_hash]
      ELSE [ret  |-> NoReason,
            time |-> _last_sig_time,
            hash |-> DictPut(_last_sig_hash, symbol, [h |-> h, t |-> now])]

\* (2) no duplicate check
throttle_and_dedup_cooldown_only(symbol, payload) ==
  LET t0 == LastSigTimeGet(symbol)
      h  == md5(payload)
  IN  IF now - t0 < COOLDOWN_SECONDS
        THEN [ret  |-> Reason("COOLDOWN active", COOLDOWN_SECONDS - (now - t0)),
              time |-> _last_sig_time, hash |-> _last_sig_hash]
      ELSE [ret  |-> NoReason,
            time |-> DictPut(_last_sig_time, symbol, now),
            hash |-> DictPut(_last_sig_hash, symbol, [h |-> h, t |-> now])]

\* (3) the state is written as soon as the cooldown check has passed, before
\* the duplicate check
throttle_and_dedup_eager(symbol, payload) ==
  LET t0 == LastSigTimeGet(symbol)
      h  == md5(payload)
  IN  IF now - t0 < COOLDOWN_SECONDS
        THEN [ret  |-> Reason("COOLDOWN active", COOLDOWN_SECONDS - (now - t0)),
              time |-> _last_sig_time, hash |-> _last_sig_hash]
      ELSE IF /\ symbol \in DOMAIN _last_sig_hash
              /\ _last_sig_hash[symbol].h = h
              /\ now - _last_sig_hash[symbol].t < DEDUP_WINDOW_SECONDS
        THEN [ret  |-> Reason("DUPLICATE within window", 0),
              time |-> DictPut(_last_sig_time, symbol, now),
              hash |-> DictPut(_last_sig_hash, symbol, [h |-> h, t |-> now])]
      ELSE [ret  |-> NoReason,
            time |-> DictPut(_last_sig_time, symbol, now),
            hash |-> DictPut(_last_sig_hash, symbol, [h |-> h, t |-> now])]

\* (4) a cooldown rejection restarts the cooldown
throttle_and_dedup_extending(symbol, payload) ==
  LET t0 == LastSigTimeGet(symbol)
      h  == md5(payload)
  IN  IF now - t0 < COOLDOWN_SECONDS
        THEN [ret  |-> Reason("COOLDOWN active", COOLDOWN_SECONDS - (now - t0)),
              time |-> DictPut(_last_sig_time, symbol, now),
              hash |-> _last_sig_hash]
      ELSE IF /\ symbol \in DOMAIN _last_sig_hash
              /\ _last_sig_hash[symbol].h = h
              /\ now - _last_sig_hash[symbol].t < DEDUP_WINDOW_SECONDS
        THEN [ret  |-> Reason("DUPLICATE within window", 0),
              time |-> _last_sig_time, hash |-> _last_sig_hash]
      ELSE [ret  |-> NoReason,
            time |-> DictPut(_last_sig_time, symbol, now),
            hash |-> DictPut(_last_sig_hash, symbol, [h |-> h, t |-> now])]

\* (5) the duplicate check comes before the cooldown check
throttle_and_dedup_dedup_first(symbol, payload) ==
  LET t0 == LastSigTimeGet(symbol)
      h  == md5(payload)
  IN  IF /\ symbol \in DOMAIN _last_sig_hash
         /\ _last_sig_hash[symbol].h = h
         /\ now - _last_sig_hash[symbol].t < DEDUP_WINDOW_SECONDS
        THEN [ret  |-> Reason("DUPLICATE within window", 0),
              time |-> _last_sig_time, hash |-> _last_sig_hash]
      ELSE IF now - t0 < COOLDOWN_SECONDS
        THEN [ret  |-> Reason("COOLDOWN active", COOLDOWN_SECONDS - (now - t0)),
              time |-> _last_sig_time, hash |-> _last_sig_hash]
      ELSE [ret  |-> NoReason,
            time |-> DictPut(_last_sig_time, symbol, now),
            hash |-> DictPut(_last_sig_hash, symbol, [h |-> h, t |-> now])]

\* returns the reason (NoReason is None) with the two dicts as it leaves them
throttle_and_dedup(symbol, payload) ==
  LET t0 == LastSigTimeGet(symbol)
      h  == md5(payload)
  IN  IF now - t0 < COOLDOWN_SECONDS
        THEN [ret  |-> Reason("COOLDOWN active", COOLDOWN_SECONDS - (now - t0)),
              time |-> _last_sig_time, hash |-> _last_sig_hash]
      ELSE IF /\ symbol \in DOMAIN _last_sig_hash
              /\ _last_sig_hash[symbol].h = h
              /\ now - _last_sig_hash[symbol].t < DEDUP_WINDOW_SECONDS
        THEN [ret  |-> Reason("DUPLICATE within window", 0),
              time |-> _last_sig_time, hash |-> _last_sig_hash]
      ELSE [ret  |-> NoReason,
            time |-> DictPut(_last_sig_time, symbol, now),
            hash |-> DictPut(_last_sig_hash, symbol, [h |-> h, t |-> now])]

\* ------------------------------------------------------------ daily risk
reset_daily_risk_if_new_day ==
  IF _daily_risk_day # UtcDate(now)
    THEN [day |-> UtcDate(now), used |-> 0]
    ELSE [day |-> _daily_risk_day, used |-> _daily_risk_used]

\* faulty variant: the cap itself is refused
daily_risk_allowed_strict ==
  LET r == reset_daily_risk_if_new_day
  IN  [ok   |-> (r.used + RISK_PER_TRADE_PCT) < MAX_DAILY_RISK_PCT,
       day  |-> r.day,
       used |-> r.used]

daily_risk_allowed ==
  LET r == reset_daily_risk_if_new_day
  IN  [ok   |-> (r.used + RISK_PER_TRADE_PCT) <= MAX_DAILY_RISK_PCT,
       day  |-> r.day,
       used |-> r.used]

apply_loss_to_risk_budget(loss_happened) ==
  LET r == reset_daily_risk_if_new_day
  IN  [day  |-> r.day,
       used |-> IF loss_happened THEN r.used + RISK_PER_TRADE_PCT ELSE r.used]

\* ------------------------------------------------------------ enrichment
\* Floats are kept as scaled integers: a funding rate in units of 0.0001, the
\* long/short ratio in tenths, prices and RR in tenths.
FUNDING_LONG_MAX == 5
FUNDING_SHORT_MIN == -5
LSR_ONE == 10
CRYPTOPANIC_TOKEN == "token"
\* os.getenv("OPENAI_API_KEY") of a deployment that has one
KeyPresent == "key"
BOT_TOKEN == "bot"

\* faulty variant: a failed request is read as a rate of zero
binance_funding_rate_zero(reply) == Some(reply.v)

\* reply: what premiumIndex answered (None: the request failed, or the field
\* lastFundingRate is missing)
binance_funding_rate(reply) == IF reply.ok THEN Some(reply.v) ELSE None

\* reply: longAccount / shortAccount of the last entry (None: the request
\* failed or the list is empty)
binance_global_ls_ratio(reply) == IF reply.ok THEN Some(reply.v) ELSE None

\* reply: the number of aggTrades above 2,000,000 notional (None: the
\* request failed).  Gives the count, the cache as it leaves it, and whether
\* the network was used.
binance_liquidations_recent(reply) ==
  IF now - _liq_cache.t < LIQ_TTL
    THEN [count |-> _liq_cache.count, cache |-> _liq_cache, fetched |-> FALSE]
    ELSE LET count == IF reply.ok THEN reply.v ELSE 0
         IN  [count |-> count, cache |-> [t |-> now, count |-> count],
              fetched |-> TRUE]

\* str.upper() on the symbols that occur
Upper(s) ==
  CASE s = "ethusdt" -> "ETHUSDT"
    [] s = "/sl" -> "/SL"
    [] s = "/exit" -> "/EXIT"
    [] OTHER -> s

\* reply: the scores of the posts returned (None: the request failed).  The
\* cache keeps one fetch time for all symbols.
fetch_cryptopanic(symbol, reply) ==
  LET key == Upper(symbol)
  IN  IF now - _news_cache.t < NEWS_TTL /\ key \in DOMAIN _news_cache.by_symbol
        THEN [posts |-> _news_cache.by_symbol[key], cache |-> _news_cache,
              fetched |-> FALSE]
      ELSE IF CRYPTOPANIC_TOKEN = ""
        THEN [posts |-> << >>, cache |-> _news_cache, fetched |-> FALSE]
      ELSE LET mapped == IF reply.ok THEN reply.v ELSE << >>
           IN  [posts |-> mapped,
                cache |-> [t |-> now,
                           by_symbol |-> DictPut(_news_cache.by_symbol, key, mapped)],
                fetched |-> TRUE]

RECURSIVE SumSeq(_)
SumSeq(s) == IF s = << >> THEN 0 ELSE Head(s) + SumSeq(Tail(s))

news_signal(posts) ==
  LET tot == SumSeq(posts)
  IN  [news_score |-> tot, block |-> NEWS_BLOCK_ENABLED /\ tot <= -2]

\* faulty variant: the funding thresholds count as met
quality_score_inclusive(setup, funding, lsr, liq_recent) ==
  LET long_bias  == setup = "strong_long"
      short_bias == setup = "strong_short"
      B(c) == IF c THEN 1 ELSE 0
  IN    B(funding.ok /\ long_bias /\ funding.v <= FUNDING_LONG_MAX)
      + B(funding.ok /\ short_bias /\ funding.v >= FUNDING_SHORT_MIN)
      + B(lsr.ok /\ long_bias /\ lsr.v < LSR_ONE)
      + B(lsr.ok /\ short_bias /\ lsr.v > LSR_ONE)
      + B(liq_recent.ok /\ liq_recent.v >= 1)

\* faulty variant: a liquidation count of zero earns the point too
quality_score_any_liq(setup, funding, lsr, liq_recent) ==
  LET long_bias  == setup = "strong_long"
      short_bias == setup = "strong_short"
      B(c) == IF c THEN 1 ELSE 0
  IN    B(funding.ok /\ long_bias /\ funding.v < FUNDING_LONG_MAX)
      + B(funding.ok /\ short_bias /\ funding.v > FUNDING_SHORT_MIN)
      + B(lsr.ok /\ long_bias /\ lsr.v < LSR_ONE)
      + B(lsr.ok /\ short_bias /\ lsr.v > LSR_ONE)
      + B(liq_recent.ok /\ liq_recent.v >= 0)

\* ---------------------------------------------------------- quality_score
quality_score(setup, funding, lsr, liq_recent) ==
  LET long_bias  == setup = "strong_long"
      short_bias == setup = "strong_short"
      B(c) == IF c THEN 1 ELSE 0
  IN    B(funding.ok /\ long_bias /\ funding.v < FUNDING_LONG_MAX)
      + B(funding.ok /\ short_bias /\ funding.v > FUNDING_SHORT_MIN)
      + B(lsr.ok /\ long_bias /\ lsr.v < LSR_ONE)
      + B(lsr.ok /\ short_bias /\ lsr.v > LSR_ONE)
      + B(liq_recent.ok /\ liq_recent.v >= 1)

\* ------------------------------------------------------ model call, parser
\* A text is its non-empty lines; a line is its lower-cased prefix (k) up to
\* and including the colon, and the stripped remainder (v).
Line(k, v) == [k |-> k, v |-> v]

FallbackText(why) ==
  << Line("decision:", "WAIT"), Line("entry:", "0"), Line("sl:", "0"),
     Line("tp1:", "0"), Line("tp2:", "0"), Line("rr:", "1.5"),
     Line("why:", why), Line("risk:", "unavailable") >>

\* faulty variant: nothing is substituted for the reply that did not come
openai_chat_blank(reply) ==
  IF OPENAI_API_KEY = "" THEN << >>
  ELSE IF reply.ok THEN reply.v
  ELSE << >>

\* reply: the content of the first choice (None: the request failed)
openai_chat(reply) ==
  IF OPENAI_API_KEY = "" THEN FallbackText("1) openai_key_missing 2) fallback")
  ELSE IF reply.ok THEN reply.v
  ELSE FallbackText("1) openai_error 2) fallback")

openai_vision_decide(reply) ==
  IF OPENAI_API_KEY = "" THEN FallbackText("1) openai_key_missing 2) fallback")
  ELSE IF reply.ok THEN reply.v
  ELSE FallbackText("1) openai_vision_error 2) fallback")

\* float(v), in tenths, of the numerals that occur; anything else raises
Numerals == {"0", "95", "100", "110", "120", "1.5", "1.8"}
Float(v) ==
  CASE v = "0" -> 0 [] v = "95" -> 950 [] v = "100" -> 1000 [] v = "110" -> 1100
    [] v = "120" -> 1200 [] v = "1.5" -> 15 [] v = "1.8" -> 18

ParseDefaults ==
  [Decision |-> "WAIT", Entry |-> 0, SL |-> 0, TP1 |-> 0, TP2 |-> 0, RR |-> 15,
   Why |-> "", Risk |-> ""]

\* the loop of parse_signal; a float() that raises ends it with what was set
RECURSIVE ParseLines(_, _)
ParseLines(lines, out) ==
  IF lines = << >> THEN out
  ELSE
    LET ln == Head(lines)
        numeric == ln.k \in {"entry:", "sl:", "tp1:", "tp2:", "rr:"}
    IN  IF numeric /\ ln.v \notin Numerals THEN out
        ELSE ParseLines(Tail(lines),
               CASE ln.k = "decision:" ->
                      IF ln.v \in {"LONG", "SHORT", "WAIT"}
                        THEN [out EXCEPT !.Decision = ln.v] ELSE out
                 [] ln.k = "entry:" -> [out EXCEPT !.Entry = Float(ln.v)]
                 [] ln.k = "sl:"    -> [out EXCEPT !.SL = Float(ln.v)]
                 [] ln.k = "tp1:"   -> [out EXCEPT !.TP1 = Float(ln.v)]
                 [] ln.k = "tp2:"   -> [out EXCEPT !.TP2 = Float(ln.v)]
                 [] ln.k = "rr:"    -> [out EXCEPT !.RR = Float(ln.v)]
                 [] ln.k = "why:"   -> [out EXCEPT !.Why = ln.v]
                 [] ln.k = "risk:"  -> [out EXCEPT !.Risk = ln.v]
                 [] OTHER -> out)

\* faulty variant: a value float() refuses is skipped and the loop goes on
RECURSIVE ParseLinesLenient(_, _)
ParseLinesLenient(lines, out) ==
  IF lines = << >> THEN out
  ELSE
    LET ln == Head(lines)
        numeric == ln.k \in {"entry:", "sl:", "tp1:", "tp2:", "rr:"}
    IN  IF numeric /\ ln.v \notin Numerals
          THEN ParseLinesLenient(Tail(lines), out)
        ELSE ParseLinesLenient(Tail(lines),
               CASE ln.k = "decision:" ->
                      IF ln.v \in {"LONG", "SHORT", "WAIT"}
                        THEN [out EXCEPT !.Decision = ln.v] ELSE out
                 [] ln.k = "entry:" -> [out EXCEPT !.Entry = Float(ln.v)]
                 [] ln.k = "sl:"    -> [out EXCEPT !.SL = Float(ln.v)]
                 [] ln.k = "tp1:"   -> [out EXCEPT !.TP1 = Float(ln.v)]
                 [] ln.k = "tp2:"   -> [out EXCEPT !.TP2 = Float(ln.v)]
                 [] ln.k = "rr:"    -> [out EXCEPT !.RR = Float(ln.v)]
                 [] ln.k = "why:"   -> [out EXCEPT !.Why = ln.v]
                 [] ln.k = "risk:"  -> [out EXCEPT !.Risk = ln.v]
                 [] OTHER -> out)
parse_signal_lenient(text) == ParseLinesLenient(text, ParseDefaults)

parse_signal(text) == ParseLines(text, ParseDefaults)

\* ---------------------------------------------------------------- journal
CsvHeader == "ts,symbol,tf,setup,price,decision,entry,sl,tp1,tp2,rr,why,risk,funding,lsr_5m,liq_recent,news_score"

ensure_csv_headers == IF csv = << >> THEN << CsvHeader >> ELSE csv

LastN(s, n) == IF Len(s) > n THEN SubSeq(s, Len(s) - n + 1, Len(s)) ELSE s

\* faulty variant: the row is kept in memory only when the file took it
append_journal_if_written(row, write_ok) ==
  [mem |-> IF write_ok THEN LastN(Append(_journal_mem, row), JOURNAL_WINDOW)
           ELSE _journal_mem,
   csv |-> IF write_ok THEN Append(ensure_csv_headers, row) ELSE ensure_csv_headers]

\* faulty variant: a full window keeps its rows and drops the new one
append_journal_keep_oldest(row, write_ok) ==
  [mem |-> IF Len(_journal_mem) >= JOURNAL_WINDOW THEN _journal_mem
           ELSE Append(_journal_mem, row),
   csv |-> IF write_ok THEN Append(ensure_csv_headers, row) ELSE ensure_csv_headers]

\* write_ok: whether opening and appending to the file succeeded
append_journal(row, write_ok) ==
  [mem |-> LastN(Append(_journal_mem, row), JOURNAL_WINDOW),
   csv |-> IF write_ok THEN Append(ensure_csv_headers, row) ELSE ensure_csv_headers]

\* --------------------------------------------------------------- notifier
\* reply: "200", another status, or "exception"
tg_send_message(reply, channel_id) ==
  IF BOT_TOKEN = "" \/ (CHANNEL_ID = "" /\ channel_id = "") THEN FALSE
  ELSE reply = "200"

\* ----------------------------------------------------------------- inputs
\* what the callers send and what the providers answer
\* the symbol and setup of a /gpt-signal body
GptBodies == { << "BTCUSDT", "strong_long" >>, << "BTCUSDT", "neutral" >>,
               << "ethusdt", "strong_long" >> }
\* the context of a /tv-alert: its ";"-separated parts, each cut after "="
TvContexts == { << << "setup=", "strong_long" >> >> }
TvSecrets == {TV_SECRET, "bad"}
\* the text of a chat message, as its blank-separated words
TgTexts == { << "/signal", "BTCUSDT", "15m", "strong_long" >>,
             << "/sl", "BTCUSDT-15m-1" >> }
\* the caption of a photo message
TgCaptions == { << "BTCUSDT", "15m", "strong_long" >> }
CmdWords == {"/signal", "/gpt", "/analyze", "signal"}
\* str.lower() on the first words that occur
Lower(s) ==
  CASE s = "/SIGNAL" -> "/signal"
    [] s = "/Signal" -> "/signal"
    [] s = "Signal" -> "signal"
    [] s = "/SL" -> "/sl"
    [] OTHER -> s

\* what Binance answers in one run (funding, ratio, liquidation proxy): the
\* usual answer, and no answer
DataUsual == [funding |-> Some(4), lsr |-> Some(9), liq |-> Some(1)]
DataDown == [funding |-> None, lsr |-> None, liq |-> None]
DataReplies == { DataUsual, DataDown }
\* what CryptoPanic answers, as the post scores: usually no rising post
NewsUsual == Some(<< >>)
NewsReplies == { NewsUsual, Some(<< -1, -1 >>), None }
\* what the providers of the enrichment answer in one run
EnrichReplies == { [data |-> d, news |-> n] : d \in DataReplies, n \in NewsReplies }
EnrichUsual == [data |-> DataUsual, news |-> NewsUsual]
LongText ==
  << Line("decision:", "LONG"), Line("entry:", "100"), Line("sl:", "95"),
     Line("tp1:", "110"), Line("tp2:", "120"), Line("rr:", "1.8"),
     Line("why:", "a b"), Line("risk:", "c") >>
ModelUsual == Some(LongText)
ModelReplies == { ModelUsual, None }
SendReplies == {"200", "500", "exception"}

\* ------------------------------------------------------------------ state
\* a request record lists its fields in the order TLC sorts them, so that a
\* record shared between workers is never reordered in place
NoReq ==
  [symbol |-> "", tf |-> "", setup |-> "", price |-> 0, ctx |-> << >>,
   entry |-> "none", chat_id |-> FALSE, cmd |-> ""]
NoLoc ==
  [funding |-> None, lsr |-> None, liqs |-> 0,
   news |-> [news_score |-> 0, block |-> FALSE],
   llm_out |-> << >>, row |-> << >>]
\* status "none": nothing returned (yet); row: the row returned, if any
NoRes == [status |-> "none", reason |-> NoReason, row |-> << >>]
Wait(reason) == [status |-> "WAIT", reason |-> reason, row |-> << >>]
Ok(row) == [status |-> "OK", reason |-> NoReason, row |-> << row >>]
Raised == [status |-> "raise", reason |-> NoReason, row |-> << >>]

Ev(name, ok) == [ev |-> name, ok |-> ok]

Snapshot ==
  [time |-> _last_sig_time, hash |-> _last_sig_hash,
   used |-> _daily_risk_used, day |-> _daily_risk_day,
   mem |-> _journal_mem, csv |-> csv,
   liq |-> _liq_cache, news |-> _news_cache, passes |-> passes]

\* no request is inside throttle_and_dedup beside the one in flight
NoThreads == << >>

Init ==
  /\ now \in StartTimes
  /\ \E c \in Configs : COOLDOWN_SECONDS = c[1] /\ DEDUP_WINDOW_SECONDS = c[2]
  /\ FORBIDDEN_UTC_HOURS = ForbiddenDefault
  /\ OPENAI_API_KEY = KeyPresent
  /\ _last_sig_time = EmptyDict
  /\ _last_sig_hash = EmptyDict
  /\ _daily_risk_used = 0
  /\ _daily_risk_day = 0
  /\ _journal_mem = << >>
  /\ csv = << >>
  /\ _liq_cache = [t |-> 0, count |-> 0]
  /\ _news_cache = [t |-> 0, by_symbol |-> EmptyDict]
  /\ newsAt = EmptyDict
  /\ thr = NoThreads
  /\ pc = "idle"
  /\ req = NoReq
  /\ loc = NoLoc
  /\ res = NoRes
  /\ http = 0
  /\ trace = << >>
  /\ passes = EmptyDict
  /\ riskLog = << >>
  /\ nreq = 0
  /\ nticks = 0
  /\ odd = 0
  /\ pre = Snapshot

config == << COOLDOWN_SECONDS, DEDUP_WINDOW_SECONDS, FORBIDDEN_UTC_HOURS,
            OPENAI_API_KEY >>
guard_state == << _last_sig_time, _last_sig_hash, passes >>
risk_state == << _daily_risk_used, _daily_risk_day, riskLog >>
journal_state == << _journal_mem, csv >>
cache_state == << _liq_cache, _news_cache, newsAt >>

\* ------------------------------------------------------------- the clock
\* a reply off the usual one is paid from the budget
Spend(is_odd) ==
  /\ is_odd => odd < MaxOdd
  /\ odd' = IF is_odd THEN odd + 1 ELSE odd

Tick(d) ==
  /\ pc = "idle"
  /\ nticks < MaxTicks
  /\ now' = now + d
  /\ nticks' = nticks + 1
  /\ UNCHANGED << config, thr, guard_state, risk_state, journal_state, cache_state,
                  pc, req, loc, res, http, trace, pre, nreq, odd >>

\* ---------------------------------------------------------- entry points
\* a request enters run_signal_flow (or the vision flow) with these arguments
Begin(r, first) ==
  /\ pc = "idle"
  /\ nreq < MaxReq
  /\ nreq' = nreq + 1
  /\ req' = r
  /\ pc' = first
  /\ loc' = NoLoc
  /\ res' = NoRes
  /\ http' = 0
  /\ trace' = << >>
  /\ pre' = Snapshot
  /\ UNCHANGED << now, config, thr, guard_state, risk_state, journal_state,
                  cache_state, nticks, odd >>

\* /gpt-signal
gpt_signal(symbol, setup) ==
  Begin([symbol |-> Upper(symbol), tf |-> "15m", setup |-> setup,
         price |-> 0, ctx |-> << >>, entry |-> "gpt-signal",
         chat_id |-> FALSE, cmd |-> ""],
        "forbidden")

\* the loop of tv_alert over the parts of the context
RECURSIVE TvParts(_, _)
TvParts(parts, acc) ==
  IF parts = << >> THEN acc
  ELSE
    LET p == Head(parts)
    IN  TvParts(Tail(parts),
          CASE p[1] = "TF=" -> [acc EXCEPT !.tf = p[2]]
            [] p[1] = "setup=" -> [acc EXCEPT !.setup = p[2]]
            [] p[1] = "close=" ->
                 IF p[2] \in Numerals THEN [acc EXCEPT !.price = Float(p[2])]
                 ELSE acc
            [] OTHER -> acc)

\* /tv-alert
tv_alert(secret, text, ctx) ==
  IF secret # TV_SECRET
    THEN /\ pc = "idle"
         /\ nreq < MaxReq
         /\ nreq' = nreq + 1
         /\ req' = [NoReq EXCEPT !.entry = "tv-alert"]
         /\ pc' = "answered"
         /\ loc' = NoLoc
         /\ res' = NoRes
         /\ http' = 403
         /\ trace' = << >>
         /\ pre' = Snapshot
         /\ UNCHANGED << now, config, thr, guard_state, risk_state, journal_state,
                         cache_state, nticks, odd >>
    ELSE LET a == TvParts(ctx, [tf |-> "15m", setup |-> "neutral", price |-> 0])
         IN  Begin([symbol |-> Upper(text), tf |-> a.tf, setup |-> a.setup,
                    price |-> a.price, ctx |-> ctx, entry |-> "tv-alert",
                    chat_id |-> FALSE, cmd |-> ""],
                   "forbidden")

\* parts[i] if len(parts) > i else default (i counted from 0 as in the code)
PartOr(parts, i, default) == IF Len(parts) > i THEN parts[i + 1] ELSE default

\* /tg-webhook, a text message
tg_webhook_text(text) ==
  LET parts == IF text # << >> /\ Lower(text[1]) \in CmdWords
                 THEN Tail(text) ELSE text
      p3 == PartOr(parts, 3, "0")
  IN  Begin([symbol |-> Upper(PartOr(parts, 0, "BTCUSDT")),
             tf |-> PartOr(parts, 1, "15m"),
             setup |-> PartOr(parts, 2, "neutral"),
             price |-> IF p3 \in Numerals THEN Float(p3) ELSE 0,
             ctx |-> IF Len(parts) > 4
                       THEN [i \in 1..(Len(parts) - 4) |-> << parts[i + 4] >>]
                       ELSE << >>,
             entry |-> "tg-text",
             chat_id |-> TRUE,
             cmd |-> text[1]],
            "forbidden")

\* /tg-webhook, a photo message; url_ok: whether getFile gave a URL
tg_webhook_photo(caption, url_ok) ==
  LET p3 == PartOr(caption, 3, "0")
      r == [symbol |-> Upper(PartOr(caption, 0, "BTCUSDT")),
            tf |-> PartOr(caption, 1, "15m"),
            setup |-> PartOr(caption, 2, "neutral"),
            price |-> IF p3 \in Numerals THEN Float(p3) ELSE 0,
            ctx |-> << >>, entry |-> "tg-photo", chat_id |-> TRUE,
            cmd |-> ""]
  IN  IF url_ok
        THEN Begin(r, "v_enrich")
        ELSE /\ pc = "idle"
             /\ nreq < MaxReq
             /\ nreq' = nreq + 1
             /\ req' = r
             /\ pc' = "answered"
             /\ loc' = NoLoc
             /\ res' = NoRes
             /\ http' = 400
             /\ trace' = << >>
             /\ pre' = Snapshot
             /\ UNCHANGED << now, config, thr, guard_state, risk_state,
                             journal_state, cache_state, nticks, odd >>

\* -------------------------------------------------------- run_signal_flow
\* a rejection: return {"status": "WAIT", "reason": reason}
Reject(reason) ==
  /\ res' = Wait(reason)
  /\ pc' = "respond"

\* if forbidden_hours(): return WAIT
StepForbidden ==
  /\ pc = "forbidden"
  /\ LET f == forbidden_hours
     IN  /\ trace' = Append(trace, Ev("forbidden_hours", f = "False"))
         /\ IF f = "True" THEN Reject(Reason("forbidden_hours", 0))
            ELSE IF f = "ValueError" THEN res' = Raised /\ pc' = "respond"
            ELSE res' = res /\ pc' = "throttle"
  /\ UNCHANGED << now, config, thr, guard_state, risk_state, journal_state,
                  cache_state, req, loc, http, pre, nreq, nticks, odd >>

\* the record of what throttle_and_dedup answered, kept beside the program's
\* own state: an alert let through is appended, a cooldown rejection counted
NotePass(symbol, ret, h) ==
  IF ret = NoReason
    THEN DictPut(passes, symbol,
           LastN((IF symbol \in DOMAIN passes THEN passes[symbol] ELSE << >>)
                   \o << [t |-> now, h |-> h, rej |-> 0] >>, 2))
  ELSE IF ret.msg = "COOLDOWN active" /\ symbol \in DOMAIN passes
    THEN LET ps == passes[symbol]
         IN  DictPut(passes, symbol,
               [ps EXCEPT ![Len(ps)].rej = ps[Len(ps)].rej + 1])
  ELSE passes

\* ded = throttle_and_dedup(symbol, payload_for_hash); if ded: return WAIT
StepThrottle ==
  /\ pc = "throttle"
  /\ LET p == payload_for_hash(req.symbol, req.tf, req.setup, req.price, req.ctx)
         t == throttle_and_dedup(req.symbol, p)
     IN  /\ _last_sig_time' = t.time
         /\ _last_sig_hash' = t.hash
         /\ trace' = Append(trace, Ev("throttle_and_dedup", t.ret = NoReason))
         /\ IF t.ret # NoReason
              THEN Reject(t.ret) /\ passes' = NotePass(req.symbol, t.ret, md5(p))
              ELSE /\ res' = res
                   /\ pc' = "risk"
                   /\ passes' = NotePass(req.symbol, t.ret, md5(p))
  /\ UNCHANGED << now, config, thr, risk_state, journal_state, cache_state, req, loc,
                  http, pre, nreq, nticks, odd >>

\* if not daily_risk_allowed(): return WAIT
StepRisk ==
  /\ pc = "risk"
  /\ LET r == daily_risk_allowed
     IN  /\ _daily_risk_day' = r.day
         /\ _daily_risk_used' = r.used
         /\ trace' = Append(trace, Ev("daily_risk_allowed", r.ok))
         /\ IF r.ok THEN res' = res /\ pc' = "enrich"
            ELSE Reject(Reason("daily_risk_cap", 0))
  /\ UNCHANGED << now, config, thr, guard_state, riskLog, journal_state, cache_state,
                  req, loc, http, pre, nreq, nticks, odd >>

\* the events of one liquidation / news lookup: a fetch only on a cache miss
FetchEv(name, fetched, ok) == IF fetched THEN << Ev(name, ok) >> ELSE << >>

\* funding, lsr, liqs, news = ...
StepEnrich(e) ==
  /\ pc = "enrich"
  /\ Spend(e # EnrichUsual)
  /\ LET data == e.data
         news_reply == e.news
         l == binance_liquidations_recent(data.liq)
         n == fetch_cryptopanic(req.symbol, news_reply)
     IN  /\ loc' = [loc EXCEPT !.funding = binance_funding_rate(data.funding),
                               !.lsr = binance_global_ls_ratio(data.lsr),
                               !.liqs = l.count,
                               !.news = news_signal(n.posts)]
         /\ _liq_cache' = l.cache
         /\ _news_cache' = n.cache
         /\ newsAt' = IF n.fetched THEN DictPut(newsAt, Upper(req.symbol), now)
                       ELSE newsAt
         /\ trace' = trace \o << Ev("fetch_funding", data.funding.ok),
                                 Ev("fetch_lsr", data.lsr.ok) >>
                           \o FetchEv("fetch_liq", l.fetched, data.liq.ok)
                           \o FetchEv("fetch_news", n.fetched, news_reply.ok)
  /\ pc' = "gates"
  /\ UNCHANGED << now, config, thr, guard_state, risk_state, journal_state, req, res,
                  http, pre, nreq, nticks >>

\* faulty variant: the quality gate before the news block
gate_reason_quality_first(block, q) ==
  IF q < QUALITY_MIN_SCORE THEN Reason("quality<", QUALITY_MIN_SCORE)
  ELSE IF block THEN Reason("negative_news_block", 0)
  ELSE NoReason

\* q = quality_score(...); the news block, then the quality gate
\*   if news["block"]: return WAIT negative_news_block
\*   if q < QUALITY_MIN_SCORE: return WAIT quality<N
gate_reason(block, q) ==
  IF block THEN Reason("negative_news_block", 0)
  ELSE IF q < QUALITY_MIN_SCORE THEN Reason("quality<", QUALITY_MIN_SCORE)
  ELSE NoReason

StepGates ==
  /\ pc = "gates"
  /\ LET q == quality_score(req.setup, loc.funding, loc.lsr, Some(loc.liqs))
         g == gate_reason(loc.news.block, q)
     IN  /\ trace' = Append(trace, Ev("gates", g = NoReason))
         /\ IF g # NoReason THEN Reject(g)
            ELSE res' = res /\ pc' = "llm"
  /\ UNCHANGED << now, config, thr, guard_state, risk_state, journal_state,
                  cache_state, req, loc, http, pre, nreq, nticks, odd >>

\* llm_out = openai_chat(prompt)
StepModel(reply) ==
  /\ pc = "llm"
  /\ Spend(reply # ModelUsual)
  /\ loc' = [loc EXCEPT !.llm_out = openai_chat(reply)]
  /\ trace' = Append(trace, Ev("openai_chat", OPENAI_API_KEY # "" /\ reply.ok))
  /\ pc' = "journal"
  /\ UNCHANGED << now, config, thr, guard_state, risk_state, journal_state,
                  cache_state, req, res, http, pre, nreq, nticks >>

\* the row built from the request, the parsed reply and the enrichment
Row(symbol, tf, setup, price, parsed, funding, lsr, liqs, news_score) ==
  [ts |-> now, symbol |-> symbol, tf |-> tf, setup |-> setup, price |-> price,
   decision |-> parsed.Decision, entry |-> parsed.Entry, sl |-> parsed.SL,
   tp1 |-> parsed.TP1, tp2 |-> parsed.TP2, rr |-> parsed.RR,
   why |-> parsed.Why, risk |-> parsed.Risk,
   funding |-> funding, lsr_5m |-> lsr, liq_recent |-> liqs,
   news_score |-> news_score]

\* parsed = parse_signal(llm_out); row = {...}; append_journal(row)
StepJournal(write_ok) ==
  /\ pc = "journal"
  /\ Spend(~write_ok)
  /\ LET row == Row(req.symbol, req.tf, req.setup, req.price,
                    parse_signal(loc.llm_out), loc.funding, loc.lsr, loc.liqs,
                    loc.news.news_score)
         j == append_journal(row, write_ok)
     IN  /\ loc' = [loc EXCEPT !.row = << row >>]
         /\ _journal_mem' = j.mem
         /\ csv' = j.csv
  /\ trace' = Append(trace, Ev("append_journal", write_ok))
  /\ pc' = "notify"
  /\ UNCHANGED << now, config, thr, guard_state, risk_state, cache_state, req, res,
                  http, pre, nreq, nticks >>

\* the tail of both flows, from the notification to the return:
\*   if FORWARD_TO_CHANNEL and CHANNEL_ID:
\*       tg_send_message(msg, CHANNEL_ID)
\*       if JOURNAL_CHANNEL_ID: tg_send_message("[JOURNAL ARCHIVE]" + msg, ...)
\*   return {"status": "OK", "row": row, "llm_raw": llm_out}
\* the value tg_send_message returns is dropped
NotifyEvents(reply, archive_reply) ==
  IF FORWARD_TO_CHANNEL /\ CHANNEL_ID # ""
    THEN << Ev("notify", tg_send_message(reply, CHANNEL_ID)) >>
         \o (IF JOURNAL_CHANNEL_ID # ""
               THEN << Ev("archive", tg_send_message(archive_reply, JOURNAL_CHANNEL_ID)) >>
               ELSE << >>)
    ELSE << >>

\* faulty variant: a failed send turns the answer into a rejection
NotifyResult_wait(row, sent) ==
  IF \E i \in 1..Len(sent) : ~sent[i].ok
    THEN Wait(Reason("notify_failed", 0))
    ELSE Ok(row)

NotifyResult(row, sent) == Ok(row)

StepNotify(reply, archive_reply) ==
  /\ pc = "notify"
  /\ Spend(reply # "200" \/ archive_reply # "200")
  /\ LET sent == NotifyEvents(reply, archive_reply)
     IN  /\ trace' = trace \o sent \o << Ev("return", TRUE) >>
         /\ res' = NotifyResult(loc.row[1], sent)
  /\ pc' = "respond"
  /\ UNCHANGED << now, config, thr, guard_state, risk_state, journal_state,
                  cache_state, req, loc, http, pre, nreq, nticks >>

\* ------------------------------------------------- run_signal_from_vision
\* funding, lsr, liqs = ...: no guard comes first
VisionEnrich(data) ==
  /\ pc = "v_enrich"
  /\ Spend(data # DataUsual)
  /\ LET l == binance_liquidations_recent(data.liq)
     IN  /\ loc' = [loc EXCEPT !.funding = binance_funding_rate(data.funding),
                               !.lsr = binance_global_ls_ratio(data.lsr),
                               !.liqs = l.count]
         /\ _liq_cache' = l.cache
         /\ trace' = trace \o << Ev("fetch_funding", data.funding.ok),
                                 Ev("fetch_lsr", data.lsr.ok) >>
                           \o FetchEv("fetch_liq", l.fetched, data.liq.ok)
  /\ pc' = "v_decide"
  /\ UNCHANGED << now, config, thr, guard_state, risk_state, journal_state,
                  _news_cache, newsAt, req, res, http, pre, nreq, nticks >>

\* raw = openai_vision_decide(image_url, caption)
VisionDecide(reply) ==
  /\ pc = "v_decide"
  /\ Spend(reply # ModelUsual)
  /\ loc' = [loc EXCEPT !.llm_out = openai_vision_decide(reply)]
  /\ trace' = Append(trace, Ev("openai_vision_decide",
                                OPENAI_API_KEY # "" /\ reply.ok))
  /\ pc' = "v_journal"
  /\ UNCHANGED << now, config, thr, guard_state, risk_state, journal_state,
                  cache_state, req, res, http, pre, nreq, nticks >>

\* parsed = parse_signal(raw); row = {..., "news_score": 0}; append_journal(row)
VisionJournal(write_ok) ==
  /\ pc = "v_journal"
  /\ Spend(~write_ok)
  /\ LET row == Row(req.symbol, req.tf, req.setup, req.price,
                    parse_signal(loc.llm_out), loc.funding, loc.lsr, loc.liqs, 0)
         j == append_journal(row, write_ok)
     IN  /\ loc' = [loc EXCEPT !.row = << row >>]
         /\ _journal_mem' = j.mem
         /\ csv' = j.csv
  /\ trace' = Append(trace, Ev("append_journal", write_ok))
  /\ pc' = "notify"
  /\ UNCHANGED << now, config, thr, guard_state, risk_state, cache_state, req, res,
                  http, pre, nreq, nticks >>

\* ------------------------------------------------------------ the answer
\* the endpoint answers: jsonify(res); /tg-webhook first echoes an accepted
\* text signal to the chat, and a failure of that post is its 500.  The
\* pipeline's locals are gone by then.
Respond(echo_ok) ==
  /\ pc = "respond"
  /\ Spend(~echo_ok)
  /\ pc' = "answered"
  /\ http' = IF res.status = "raise" THEN 500
             ELSE IF req.entry = "tg-text" /\ req.chat_id /\ res.row # << >>
               THEN (IF echo_ok THEN 200 ELSE 500)
             ELSE 200
  /\ loc' = NoLoc
  /\ trace' = << >>
  /\ UNCHANGED << now, config, thr, guard_state, risk_state, journal_state,
                  cache_state, req, res, pre, nreq, nticks >>

\* the request is over: its locals are gone
Close ==
  /\ pc = "answered"
  /\ pc' = "idle"
  /\ req' = NoReq
  /\ loc' = NoLoc
  /\ res' = NoRes
  /\ http' = 0
  /\ trace' = << >>
  /\ pre' = Snapshot
  /\ UNCHANGED << now, config, thr, guard_state, risk_state, journal_state,
                  cache_state, nreq, nticks, odd >>

\* ----------------------------------------------- the risk budget's writer
\* apply_loss_to_risk_budget(loss_happened), called from outside this file:
\* no handler of the file calls it
MaxLoss == 3
RecordLoss(loss_happened) ==
  /\ pc = "idle"
  /\ Len(riskLog) < MaxLoss
  /\ LET r == apply_loss_to_risk_budget(loss_happened)
     IN  /\ _daily_risk_day' = r.day
         /\ _daily_risk_used' = r.used
  /\ riskLog' = IF loss_happened THEN Append(riskLog, UtcDate(now)) ELSE riskLog
  /\ UNCHANGED << now, config, thr, guard_state, journal_state, cache_state, pc, req,
                  loc, res, http, trace, pre, nreq, nticks, odd >>

\* ---------------------------------------------------------- specifications
Next ==
  \/ \E d \in Deltas : Tick(d)
  \/ \E b \in GptBodies : gpt_signal(b[1], b[2])
  \/ \E k \in TvSecrets, c \in TvContexts : tv_alert(k, "BTCUSDT", c)
  \/ \E t \in TgTexts : tg_webhook_text(t)
  \/ \E c \in TgCaptions, u \in BOOLEAN : tg_webhook_photo(c, u)
  \/ StepForbidden
  \/ StepThrottle
  \/ StepRisk
  \/ \E e \in EnrichReplies : StepEnrich(e)
  \/ StepGates
  \/ \E r \in ModelReplies : StepModel(r)
  \/ \E w \in BOOLEAN : StepJournal(w)
  \/ \E r \in SendReplies, a \in SendReplies : StepNotify(r, a)
  \/ \E d \in DataReplies : VisionEnrich(d)
  \/ \E r \in ModelReplies : VisionDecide(r)
  \/ \E w \in BOOLEAN : VisionJournal(w)
  \/ \E e \in BOOLEAN : Respond(e)
  \/ Close

Spec == Init /\ [][Next]_vars

\* /gpt-signal alone, with losses recorded in the budget from outside
NextLoss ==
  \/ \E d \in Deltas : Tick(d)
  \/ \E b \in GptBodies : gpt_signal(b[1], b[2])
  \/ StepForbidden
  \/ StepThrottle
  \/ StepRisk
  \/ \E e \in EnrichReplies : StepEnrich(e)
  \/ StepGates
  \/ \E r \in ModelReplies : StepModel(r)
  \/ \E w \in BOOLEAN : StepJournal(w)
  \/ \E r \in SendReplies, a \in SendReplies : StepNotify(r, a)
  \/ \E e \in BOOLEAN : Respond(e)
  \/ Close
  \/ \E l \in BOOLEAN : RecordLoss(l)

SpecLoss == Init /\ [][NextLoss]_vars

\* One second of requests, over the inputs the functions can be given: the
\* hour and the configuration the process started with, and what the callers
\* and the providers send.
\* hours inside and outside the configured ranges
HourTimes == { SecondsPerDay + h * SecondsPerHour : h \in {2, 4, 22} }
\* FORBIDDEN_UTC_HOURS: "0-3", "4", "0-3, 22", "22-2", "x-3,,4", "1-2-3"
ForbiddenConfigs ==
  { ForbiddenDefault,
    << "4" >>,
    << "0", "-", "3", ",", " ", "2", "2" >>,
    << "2", "2", "-", "2" >>,
    << "x", "-", "3", ",", ",", "4" >>,
    << "1", "-", "2", "-", "3" >> }
ApiKeys == { KeyPresent, "" }
WideBodies == { << "BTCUSDT", "strong_long" >>, << "BTCUSDT", "strong_short" >>,
                << "BTCUSDT", "neutral" >>, << "ethusdt", "strong_long" >> }
\* chat commands on a journal row
CmdTexts == { << "/fill", "BTCUSDT-15m-1", "100" >>,
              << "/exit", "BTCUSDT-15m-1", "110" >> }
\* funding rates around +-0.0005, ratios around 1.0, liquidation counts
\* around 1, each of them failing or not
WideData ==
  { [funding |-> f, lsr |-> l, liq |-> q] :
      f \in { None, Some(4), Some(5), Some(-5), Some(-6) },
      l \in { None, Some(9), Some(10), Some(11) },
      q \in { None, Some(0), Some(1) } }
WideEnrich == { [data |-> d, news |-> n] : d \in WideData, n \in NewsReplies }
\* completions: lines missing, repeated, unmatched, with values float()
\* refuses, before and after well-formed ones
WideTexts ==
  { LongText,
    << >>,
    << Line("decision:", "SHORT"), Line("entry:", "100") >>,
    << Line("decision:", "MAYBE"), Line("note:", "x"), Line("sl:", "95") >>,
    << Line("entry:", "abc"), Line("sl:", "95"), Line("decision:", "LONG") >>,
    << Line("decision:", "LONG"), Line("tp1:", "110"), Line("rr:", "n/a"),
       Line("tp2:", "120"), Line("why:", "a b") >>,
    << Line("entry:", "100"), Line("entry:", "110"), Line("risk:", "c") >> }
WideModel == { Some(t) : t \in WideTexts } \cup { None }

\* requests handled in that second
InputReqs == 2

\* the key is missing or not under the default hours; the hours are
\* configured one way or another with the key present
InitInputs ==
  /\ now \in HourTimes
  /\ COOLDOWN_SECONDS = 300 /\ DEDUP_WINDOW_SECONDS = 180
  /\ FORBIDDEN_UTC_HOURS \in ForbiddenConfigs
  /\ OPENAI_API_KEY \in ApiKeys
  /\ OPENAI_API_KEY = KeyPresent \/ FORBIDDEN_UTC_HOURS = ForbiddenDefault
  /\ _last_sig_time = EmptyDict
  /\ _last_sig_hash = EmptyDict
  /\ _daily_risk_used = 0
  /\ _daily_risk_day = 0
  /\ _journal_mem = << >>
  /\ csv = << >>
  /\ _liq_cache = [t |-> 0, count |-> 0]
  /\ _news_cache = [t |-> 0, by_symbol |-> EmptyDict]
  /\ newsAt = EmptyDict
  /\ thr = NoThreads
  /\ pc = "idle"
  /\ req = NoReq
  /\ loc = NoLoc
  /\ res = NoRes
  /\ http = 0
  /\ trace = << >>
  /\ passes = EmptyDict
  /\ riskLog = << >>
  /\ nreq = MaxReq - InputReqs
  /\ nticks = 0
  /\ odd = 0
  /\ pre = Snapshot

NextInputs ==
  \/ \E b \in WideBodies : gpt_signal(b[1], b[2])
  \/ \E t \in CmdTexts : tg_webhook_text(t)
  \/ StepForbidden
  \/ StepThrottle
  \/ StepRisk
  \/ \E e \in WideEnrich : StepEnrich(e)
  \/ StepGates
  \/ \E r \in WideModel : StepModel(r)
  \/ \E w \in BOOLEAN : StepJournal(w)
  \/ \E r \in SendReplies, a \in SendReplies : StepNotify(r, a)
  \/ \E e \in BOOLEAN : Respond(e)
  \/ Close

SpecInputs == InitInputs /\ [][NextInputs]_vars

\* ------------------------------------------------------------- threads
\* app.run serves each request on a thread of its own, and throttle_and_dedup
\* takes no lock: two alerts run it line by line, in any order. Each thread
\* holds the locals of its call: symbol, payload, now, t0 and what it
\* returned.
Threads == {1, 2}
ThreadIdle ==
  [pc |-> "idle", symbol |-> "", payload |-> << >>, now |-> 0, t0 |-> 0,
   ret |-> NoReason]
\* what throttle_and_dedup neither reads nor writes
outside_guard ==
  << config, passes, risk_state, journal_state, cache_state, pc, req, loc,
     res, http, trace, pre, nreq, nticks, odd >>

\* ded = throttle_and_dedup(symbol, payload_for_hash); now = time.time()
Call(t, symbol, setup) ==
  /\ thr[t].pc = "idle"
  /\ thr' = [thr EXCEPT ![t] =
       [ThreadIdle EXCEPT
          !.pc = "t0",
          !.symbol = Upper(symbol),
          !.payload = payload_for_hash(Upper(symbol), "15m", setup, 0, << >>),
          !.now = now]]
  /\ UNCHANGED << now, _last_sig_time, _last_sig_hash, outside_guard >>

\* t0 = _last_sig_time.get(symbol, 0)
ReadLastTime(t) ==
  /\ thr[t].pc = "t0"
  /\ thr' = [thr EXCEPT ![t].t0 = LastSigTimeGet(thr[t].symbol),
                        ![t].pc = "cooldown"]
  /\ UNCHANGED << now, _last_sig_time, _last_sig_hash, outside_guard >>

\* if now - t0 < COOLDOWN_SECONDS: return "COOLDOWN active ..."
CooldownTest(t) ==
  /\ thr[t].pc = "cooldown"
  /\ thr' = IF thr[t].now - thr[t].t0 < COOLDOWN_SECONDS
              THEN [thr EXCEPT
                      ![t].ret = Reason("COOLDOWN active",
                                   COOLDOWN_SECONDS - (thr[t].now - thr[t].t0)),
                      ![t].pc = "returned"]
              ELSE [thr EXCEPT ![t].pc = "dedup"]
  /\ UNCHANGED << now, _last_sig_time, _last_sig_hash, outside_guard >>

\* h = md5(payload); prev = _last_sig_hash.get(symbol); the duplicate test
DedupTest(t) ==
  /\ thr[t].pc = "dedup"
  /\ thr' = IF /\ thr[t].symbol \in DOMAIN _last_sig_hash
               /\ _last_sig_hash[thr[t].symbol].h = md5(thr[t].payload)
               /\ thr[t].now - _last_sig_hash[thr[t].symbol].t
                    < DEDUP_WINDOW_SECONDS
              THEN [thr EXCEPT ![t].ret = Reason("DUPLICATE within window", 0),
                               ![t].pc = "returned"]
              ELSE [thr EXCEPT ![t].pc = "set_time"]
  /\ UNCHANGED << now, _last_sig_time, _last_sig_hash, outside_guard >>

\* _last_sig_time[symbol] = now
WriteTime(t) ==
  /\ thr[t].pc = "set_time"
  /\ _last_sig_time' = DictPut(_last_sig_time, thr[t].symbol, thr[t].now)
  /\ thr' = [thr EXCEPT ![t].pc = "set_hash"]
  /\ UNCHANGED << now, _last_sig_hash, outside_guard >>

\* _last_sig_hash[symbol] = (h, now); return None
WriteHash(t) ==
  /\ thr[t].pc = "set_hash"
  /\ _last_sig_hash' = DictPut(_last_sig_hash, thr[t].symbol,
                               [h |-> md5(thr[t].payload), t |-> thr[t].now])
  /\ thr' = [thr EXCEPT ![t].ret = NoReason, ![t].pc = "returned"]
  /\ UNCHANGED << now, _last_sig_time, outside_guard >>

\* two alerts, one per thread, the clock advancing at any point
InitThreads ==
  /\ now \in StartTimes
  /\ \E c \in Configs : COOLDOWN_SECONDS = c[1] /\ DEDUP_WINDOW_SECONDS = c[2]
  /\ FORBIDDEN_UTC_HOURS = ForbiddenDefault
  /\ OPENAI_API_KEY = KeyPresent
  /\ _last_sig_time = EmptyDict
  /\ _last_sig_hash = EmptyDict
  /\ _daily_risk_used = 0
  /\ _daily_risk_day = 0
  /\ _journal_mem = << >>
  /\ csv = << >>
  /\ _liq_cache = [t |-> 0, count |-> 0]
  /\ _news_cache = [t |-> 0, by_symbol |-> EmptyDict]
  /\ newsAt = EmptyDict
  /\ thr = [t \in Threads |-> ThreadIdle]
  /\ pc = "idle"
  /\ req = NoReq
  /\ loc = NoLoc
  /\ res = NoRes
  /\ http = 0
  /\ trace = << >>
  /\ passes = EmptyDict
  /\ riskLog = << >>
  /\ nreq = 0
  /\ nticks = 0
  /\ odd = 0
  /\ pre = Snapshot

NextThreads ==
  \/ \E d \in Deltas : Tick(d)
  \/ \E t \in Threads, b \in GptBodies : Call(t, b[1], b[2])
  \/ \E t \in Threads : ReadLastTime(t)
  \/ \E t \in Threads : CooldownTest(t)
  \/ \E t \in Threads : DedupTest(t)
  \/ \E t \in Threads : WriteTime(t)
  \/ \E t \in Threads : WriteHash(t)

SpecThreads == InitThreads /\ [][NextThreads]_vars

\* ------------------------------------------------------------- journal
\* A long run of accepted alerts, one a second, seen from the journal alone:
\* each builds its row and appends it, the file write failing now and then.
MaxAppends == 302
\* the appends made so far, one a second from the start
Appended == now - (CHOOSE t \in StartTimes : TRUE)

\* row = {...}; append_journal(row), of an alert accepted at this second
JournalAppend(write_ok) ==
  /\ pc = "idle"
  /\ Appended < MaxAppends
  /\ Spend(~write_ok)
  /\ LET row == Row("BTCUSDT", "15m", "strong_long", 0,
                    parse_signal(openai_chat(ModelUsual)),
                    Some(4), Some(9), 1, 0)
         j == append_journal(row, write_ok)
     IN  /\ _journal_mem' = j.mem
         /\ csv' = j.csv
  /\ now' = now + 1
  /\ UNCHANGED << config, thr, guard_state, risk_state, cache_state, pc, req,
                  loc, res, http, trace, pre, nreq, nticks >>

\* GET /journal?n=...
journal_list(n) == IF n > 0 THEN LastN(_journal_mem, n) ELSE _journal_mem

NextJournal == \E w \in BOOLEAN : JournalAppend(w)

SpecJournal == Init /\ [][NextJournal]_vars

\* =============================================================== properties
\* What a run shows once the pipeline has returned to its caller (pc =
\* "respond"): the request, what it returned (res), what it did (trace), its
\* locals (loc) and the state it started from (pre).
Returned == pc = "respond"
\* the request went through run_signal_flow (every flow but the photo one)
TextFlow == req.entry \in {"gpt-signal", "tv-alert", "tg-text"}
EvAt(name) == { i \in 1..Len(trace) : trace[i].ev = name }
Has(name) == EvAt(name) # {}
Passed(name) == \E i \in EvAt(name) : trace[i].ok
Failed(name) == \E i \in EvAt(name) : ~trace[i].ok
ReqHash ==
  md5(payload_for_hash(req.symbol, req.tf, req.setup, req.price, req.ctx))
\* the alerts of the request's symbol that the guard let through before it
PrePasses ==
  IF req.symbol \in DOMAIN pre.passes THEN pre.passes[req.symbol] ELSE << >>
LastPass == PrePasses[Len(PrePasses)]
\* the budget the request found, as the losses recorded on today's date
PreUsedToday == IF pre.day = UtcDate(now) THEN pre.used ELSE 0
LossesToday ==
  Cardinality({ i \in 1..Len(riskLog) : riskLog[i] = UtcDate(now) })
GateReasons ==
  {"DUPLICATE within window", "daily_risk_cap", "negative_news_block",
   "quality<"}

\* ----------------------------------------------------------------------- C1
\* C1: two alerts of one symbol that both pass throttle_and_dedup are at
\* least COOLDOWN_SECONDS apart, and an alert that arrives less than
\* COOLDOWN_SECONDS after the last alert of its symbol that passed is
\* rejected with the cooldown reason, which names the seconds that remain.
Thm_C1 ==
  /\ \A sym \in DOMAIN passes :
       Len(passes[sym]) = 2 =>
         passes[sym][2].t - passes[sym][1].t >= COOLDOWN_SECONDS
  /\ (Has("throttle_and_dedup") /\ PrePasses # << >>
        /\ now - LastPass.t < COOLDOWN_SECONDS) =>
       /\ Failed("throttle_and_dedup")
       /\ Returned =>
            /\ res.status = "WAIT"
            /\ res.reason = Reason("COOLDOWN active",
                                   COOLDOWN_SECONDS - (now - LastPass.t))

\* two alerts of the symbol have passed, and a third is rejected for cooldown
W_C1 ==
  /\ Returned
  /\ res.reason.msg = "COOLDOWN active"
  /\ Len(PrePasses) = 2

\* ----------------------------------------------------------------------- C2
\* C2: a run of run_signal_flow that returns WAIT has called no language
\* model and has left the journal, in memory and on disk, as it found it.
Thm_C2 ==
  (Returned /\ res.status = "WAIT") =>
    /\ ~Has("openai_chat")
    /\ ~Has("openai_vision_decide")
    /\ ~Has("append_journal")
    /\ _journal_mem = pre.mem
    /\ csv = pre.csv

\* a rejection by the last gate, with a journal that already holds a row
W_C2 ==
  /\ Returned
  /\ res.status = "WAIT"
  /\ res.reason.msg = "quality<"
  /\ pre.mem # << >>

\* ----------------------------------------------------------------------- C3
\* C3: on every entry point, an enrichment fetch or a language-model call of
\* a request comes only after the forbidden-hours check, the cooldown/dedup
\* check and the daily-risk check of that request, each of them passed.
Outbound ==
  {"fetch_funding", "fetch_lsr", "fetch_liq", "fetch_news", "openai_chat",
   "openai_vision_decide"}
Cx_C3 ==
  \A i \in 1..Len(trace) :
    trace[i].ev \in Outbound =>
      \E a, b, c \in 1..(i - 1) :
        /\ a < b /\ b < c
        /\ trace[a] = Ev("forbidden_hours", TRUE)
        /\ trace[b] = Ev("throttle_and_dedup", TRUE)
        /\ trace[c] = Ev("daily_risk_allowed", TRUE)

\* ----------------------------------------------------------------------- C4
\* C4 as stated: an alert whose hash is that of an alert of its symbol that
\* passed the guard less than DEDUP_WINDOW_SECONDS earlier is rejected by
\* the guard, whatever was handled in between.
Cx_C4 ==
  (Has("throttle_and_dedup")
     /\ \E i \in 1..Len(PrePasses) :
          /\ PrePasses[i].h = ReqHash
          /\ now - PrePasses[i].t < DEDUP_WINDOW_SECONDS) =>
    Failed("throttle_and_dedup")

\* C4, amended: an alert whose hash is that of the last alert of its symbol
\* that passed the guard, less than DEDUP_WINDOW_SECONDS after it, is
\* rejected: for cooldown while the cooldown runs, as a duplicate once it has
\* elapsed, alerts rejected in between changing nothing; and only such an
\* alert is rejected as a duplicate.
Thm_C4 ==
  /\ (Has("throttle_and_dedup") /\ PrePasses # << >>
        /\ LastPass.h = ReqHash
        /\ now - LastPass.t < DEDUP_WINDOW_SECONDS) =>
       /\ Failed("throttle_and_dedup")
       /\ Returned =>
            res.reason.msg = IF now - LastPass.t < COOLDOWN_SECONDS
                               THEN "COOLDOWN active"
                               ELSE "DUPLICATE within window"
  /\ (Returned /\ res.reason.msg = "DUPLICATE within window") =>
       /\ PrePasses # << >>
       /\ LastPass.h = ReqHash
       /\ now - LastPass.t < DEDUP_WINDOW_SECONDS
       /\ now - LastPass.t >= COOLDOWN_SECONDS

\* a duplicate rejected after the cooldown has elapsed, an alert of the symbol
\* having been rejected for cooldown in between
W_C4 ==
  /\ Returned
  /\ res.reason.msg = "DUPLICATE within window"
  /\ PrePasses # << >>
  /\ LastPass.rej >= 1

\* ----------------------------------------------------------------------- C5
\* C5 as stated: whenever the cooldown check passes, the last-signal time and
\* hash of the symbol become those of the current alert.
Cx_C5 ==
  (Has("throttle_and_dedup")
     /\ now - (IF req.symbol \in DOMAIN pre.time
                 THEN pre.time[req.symbol] ELSE 0) >= COOLDOWN_SECONDS) =>
    /\ req.symbol \in DOMAIN _last_sig_time
    /\ _last_sig_time[req.symbol] = now
    /\ _last_sig_hash[req.symbol] = [h |-> ReqHash, t |-> now]

\* C5, amended: whenever the cooldown check and the duplicate check both
\* pass, the last-signal time and hash of the symbol become those of the
\* current alert at once, whatever the daily risk cap, the news block and the
\* quality gate decide afterwards; an alert rejected for cooldown or as a
\* duplicate leaves both maps as they were.
Thm_C5 ==
  /\ Passed("throttle_and_dedup") =>
       /\ req.symbol \in DOMAIN _last_sig_time
       /\ _last_sig_time[req.symbol] = now
       /\ _last_sig_hash[req.symbol] = [h |-> ReqHash, t |-> now]
  /\ Failed("throttle_and_dedup") =>
       /\ _last_sig_time = pre.time
       /\ _last_sig_hash = pre.hash

\* a request rejected by the daily risk cap has taken the slot of its symbol
W_C5 ==
  /\ Returned
  /\ res.reason.msg = "daily_risk_cap"
  /\ _last_sig_time[req.symbol] = now
  /\ _last_sig_time # pre.time

\* ----------------------------------------------------------------------- C6
\* the hours "0-3" name
ForbiddenNow == UtcHour(now) \in 0..3
\* the first gate, in the order of run_signal_flow, that the request fails
FirstFailing ==
  IF ForbiddenNow THEN "forbidden_hours"
  ELSE IF now - (IF req.symbol \in DOMAIN pre.time
                   THEN pre.time[req.symbol] ELSE 0) < COOLDOWN_SECONDS
    THEN "COOLDOWN active"
  ELSE IF /\ req.symbol \in DOMAIN pre.hash
          /\ pre.hash[req.symbol].h = ReqHash
          /\ now - pre.hash[req.symbol].t < DEDUP_WINDOW_SECONDS
    THEN "DUPLICATE within window"
  ELSE IF PreUsedToday + RISK_PER_TRADE_PCT > MAX_DAILY_RISK_PCT
    THEN "daily_risk_cap"
  ELSE IF loc.news.block THEN "negative_news_block"
  ELSE IF quality_score(req.setup, loc.funding, loc.lsr, Some(loc.liqs))
            < QUALITY_MIN_SCORE
    THEN "quality<"
  ELSE "None"

\* C6: run_signal_flow returns the reason of the first gate that fails in
\* the order forbidden hours, cooldown, dedup, daily risk, news block,
\* quality, and accepts when none fails; the gates after the failing one are
\* not evaluated and change nothing: a forbidden-hours rejection leaves the
\* cooldown/dedup maps, the risk counter and the caches as they were, a
\* cooldown or duplicate rejection the risk counter and the caches, a
\* daily-risk rejection the caches.
Thm_C6 ==
  (Returned /\ TextFlow) =>
    /\ res.status \in {"WAIT", "OK"}
    /\ res.reason.msg = FirstFailing
    /\ res.status = "OK" <=> FirstFailing = "None"
    /\ FirstFailing = "forbidden_hours" =>
         /\ trace = << Ev("forbidden_hours", FALSE) >>
         /\ _last_sig_time = pre.time /\ _last_sig_hash = pre.hash
         /\ _daily_risk_used = pre.used /\ _daily_risk_day = pre.day
         /\ _liq_cache = pre.liq /\ _news_cache = pre.news
    /\ FirstFailing \in {"COOLDOWN active", "DUPLICATE within window"} =>
         /\ trace = << Ev("forbidden_hours", TRUE),
                       Ev("throttle_and_dedup", FALSE) >>
         /\ _daily_risk_used = pre.used /\ _daily_risk_day = pre.day
         /\ _liq_cache = pre.liq /\ _news_cache = pre.news
    /\ FirstFailing = "daily_risk_cap" =>
         /\ trace = << Ev("forbidden_hours", TRUE),
                       Ev("throttle_and_dedup", TRUE),
                       Ev("daily_risk_allowed", FALSE) >>
         /\ _liq_cache = pre.liq /\ _news_cache = pre.news
    /\ FirstFailing \in {"negative_news_block", "quality<"} =>
         trace[Len(trace)] = Ev("gates", FALSE)

\* rejected for the forbidden hours while the day's budget is used up too
W_C6 ==
  /\ Returned
  /\ res.reason.msg = "forbidden_hours"
  /\ PreUsedToday + RISK_PER_TRADE_PCT > MAX_DAILY_RISK_PCT

\* ----------------------------------------------------------------------- C7
\* C7: an alert that comes COOLDOWN_SECONDS or more after the last alert of
\* its symbol that passed the guard (or is the first of its symbol) is not
\* rejected for cooldown, however many alerts of the symbol were rejected for
\* cooldown in between; it is accepted unless another gate rejects it.
Thm_C7 ==
  (Returned /\ Has("throttle_and_dedup")
     /\ (PrePasses = << >> \/ now - LastPass.t >= COOLDOWN_SECONDS)) =>
    /\ res.reason.msg # "COOLDOWN active"
    /\ res.status = "OK" \/ (res.status = "WAIT" /\ res.reason.msg \in GateReasons)
    /\ res.status = "OK" <=> FirstFailing = "None"

\* accepted once the cooldown has elapsed, an alert of the symbol having been
\* rejected for cooldown in between and at a later time than the last pass
W_C7 ==
  /\ Returned
  /\ res.status = "OK"
  /\ PrePasses # << >>
  /\ LastPass.rej >= 1
  /\ now - LastPass.t >= COOLDOWN_SECONDS

\* ----------------------------------------------------------------------- C8
\* C8: an alert that reached the daily-risk gate is rejected, with reason
\* daily_risk_cap, exactly when the risk recorded on the current UTC date plus
\* RISK_PER_TRADE_PCT exceeds MAX_DAILY_RISK_PCT; the first access on a new
\* date resets the counter, so losses recorded on an earlier date do not count.
Thm_C8 ==
  Has("daily_risk_allowed") =>
    /\ Failed("daily_risk_allowed") <=>
         RISK_PER_TRADE_PCT * LossesToday + RISK_PER_TRADE_PCT
           > MAX_DAILY_RISK_PCT
    /\ _daily_risk_day = UtcDate(now)
    /\ _daily_risk_used = RISK_PER_TRADE_PCT * LossesToday
    /\ Returned =>
         (res.reason.msg = "daily_risk_cap" <=> Failed("daily_risk_allowed"))

\* the gate lets an alert through on the date after one whose budget was
\* used up
W_C8 ==
  /\ Returned
  /\ Passed("daily_risk_allowed")
  /\ LossesToday = 0
  /\ pre.used + RISK_PER_TRADE_PCT > MAX_DAILY_RISK_PCT

\* ----------------------------------------------------------------------- C9
\* C9: a /sl command sent to the chat raises daily_risk_used by
\* RISK_PER_TRADE_PCT over what the current UTC date had used.
Cx_C9 ==
  (Returned /\ req.entry = "tg-text" /\ req.cmd = "/sl") =>
    _daily_risk_used = PreUsedToday + RISK_PER_TRADE_PCT

\* ---------------------------------------------------------------------- C10
\* C10: when the send of the notification fails for an alert that passed
\* every gate, the pipeline does not return status OK to its caller.
Cx_C10 ==
  (Returned /\ Failed("notify")) => res.status # "OK"

\* ---------------------------------------------------------------------- C11
\* C11: when the call to the language model fails or the key is missing,
\* run_signal_flow still returns status OK: the canned reply is parsed, its
\* row (decision WAIT, zero prices, RR 1.5, risk "unavailable", the why
\* naming the cause) is the last row of the journal, and the notification
\* has been sent after it.
Thm_C11 ==
  (Returned /\ Failed("openai_chat")) =>
    /\ res.status = "OK"
    /\ LET row == res.row[1]
       IN  /\ row.decision = "WAIT"
           /\ row.entry = 0 /\ row.sl = 0 /\ row.tp1 = 0 /\ row.tp2 = 0
           /\ row.rr = 15
           /\ row.risk = "unavailable"
           /\ row.why = IF OPENAI_API_KEY = ""
                          THEN "1) openai_key_missing 2) fallback"
                          ELSE "1) openai_error 2) fallback"
           /\ _journal_mem # << >>
           /\ _journal_mem[Len(_journal_mem)] = row
    /\ \E i \in EvAt("append_journal"), j \in EvAt("notify") : i < j

\* accepted without a key
W_C11 ==
  /\ Returned
  /\ OPENAI_API_KEY = ""
  /\ res.status = "OK"
  /\ res.row[1].decision = "WAIT"

\* ---------------------------------------------------------------------- C12
\* the identifier a row would be given: {symbol}-{timeframe}-{timestamp}
TradeId(row) == << row.symbol, row.tf, row.ts >>

\* C12: no two rows of the journal have the same trade identifier.
Cx_C12 ==
  \A i, j \in 1..Len(_journal_mem) :
    i # j => TradeId(_journal_mem[i]) # TradeId(_journal_mem[j])

\* ---------------------------------------------------------------------- C13
\* the P&L of a row that has both prices (prices and P&L in tenths)
PnlAbs(row) ==
  IF row.decision = "LONG" THEN row.exit_price - row.fill_price
  ELSE row.fill_price - row.exit_price
PnlOk(row) ==
  /\ {"pnl_abs", "pnl_pct"} \subseteq DOMAIN row
  /\ row.pnl_abs = PnlAbs(row)
  /\ row.fill_price # 0 => row.pnl_pct = (PnlAbs(row) * 1000) \div row.fill_price

\* C13: once the chat command "/exit <id> 110" has been handled with a LONG
\* row in the journal, a LONG row carries the exit price 110, and its P&L
\* when it has a fill price too.
Cx_C13 ==
  (Returned /\ req.entry = "tg-text" /\ req.cmd = "/exit"
     /\ \E i \in 1..Len(pre.mem) : pre.mem[i].decision = "LONG") =>
    \E i \in 1..Len(_journal_mem) :
      LET row == _journal_mem[i]
      IN  /\ row.decision = "LONG"
          /\ "exit_price" \in DOMAIN row
          /\ row.exit_price = Float("110")
          /\ "fill_price" \in DOMAIN row => PnlOk(row)

\* ---------------------------------------------------------------------- C14
\* C14: the posts a lookup of the news cache gave for a symbol were fetched
\* for that symbol less than ttl seconds ago (at this lookup, or before it
\* and then served from the cache).
Cx_C14 ==
  (TextFlow /\ Has("fetch_funding")) =>
    /\ req.symbol \in DOMAIN newsAt
    /\ now - newsAt[req.symbol] < NEWS_TTL

\* ---------------------------------------------------------------------- C15
NumericKeys == {"entry:", "sl:", "tp1:", "tp2:", "rr:"}
FieldKeys == NumericKeys \cup {"decision:", "why:", "risk:"}
WellFormed(ln) ==
  IF ln.k \in NumericKeys THEN ln.v \in Numerals
  ELSE IF ln.k = "decision:" THEN ln.v \in {"LONG", "SHORT", "WAIT"}
  ELSE TRUE
LineValue(ln) == IF ln.k \in NumericKeys THEN Float(ln.v) ELSE ln.v
FieldDefault(k) ==
  CASE k = "decision:" -> "WAIT"
    [] k = "rr:" -> 15
    [] k \in {"why:", "risk:"} -> ""
    [] OTHER -> 0
\* the field of a journal row that a prefix sets
FieldOf(row, k) ==
  CASE k = "decision:" -> row.decision
    [] k = "entry:" -> row.entry
    [] k = "sl:" -> row.sl
    [] k = "tp1:" -> row.tp1
    [] k = "tp2:" -> row.tp2
    [] k = "rr:" -> row.rr
    [] k = "why:" -> row.why
    [] k = "risk:" -> row.risk
\* the first line whose number float() refuses (past the end: none)
FirstBad(text) ==
  LET bad == { i \in 1..Len(text) :
                 text[i].k \in NumericKeys /\ text[i].v \notin Numerals }
  IN  IF bad = {} THEN Len(text) + 1
      ELSE CHOOSE i \in bad : \A j \in bad : i <= j
\* what the well-formed lines among the first upto lines give a field: the
\* value of the last of them, the default when there is none
Expected(text, k, upto) ==
  LET idx == { i \in 1..upto : text[i].k = k /\ WellFormed(text[i]) }
  IN  IF idx = {} THEN FieldDefault(k)
      ELSE LineValue(text[CHOOSE i \in idx : \A j \in idx : j <= i])
Parsed == Returned /\ TextFlow /\ Has("openai_chat")

\* C15 as stated: every field with a well-formed line in the text has the
\* value of such a line, and has its default only when it has none.
Cx_C15 ==
  Parsed =>
    \A k \in FieldKeys :
      FieldOf(res.row[1], k) = Expected(loc.llm_out, k, Len(loc.llm_out))

\* C15, amended: parse_signal never raises and gives all eight fields, the
\* decision one of LONG, SHORT, WAIT; the lines are read in order up to the
\* first line whose number fails to parse, where reading stops: a field has
\* the value of its last well-formed line before that point, and its default
\* if it has none there, even when a well-formed line for it comes later;
\* unmatched lines are ignored.
Thm_C15 ==
  Parsed =>
    /\ res.status = "OK"
    /\ res.row[1].decision \in {"LONG", "SHORT", "WAIT"}
    /\ \A k \in FieldKeys :
         FieldOf(res.row[1], k) =
           Expected(loc.llm_out, k, FirstBad(loc.llm_out) - 1)

\* a number that fails to parse, with a well-formed line after it that is
\* not taken
W_C15 ==
  /\ Parsed
  /\ FirstBad(loc.llm_out) < Len(loc.llm_out)
  /\ \E k \in FieldKeys :
       FieldOf(res.row[1], k) # Expected(loc.llm_out, k, Len(loc.llm_out))

\* ---------------------------------------------------------------------- C16
\* the conditions the enrichment of the request in flight satisfies
\* (funding in units of 0.0001, the ratio in tenths)
Supports(c) ==
  CASE c = "funding" ->
         /\ loc.funding.ok
         /\ \/ req.setup = "strong_long" /\ loc.funding.v < 5
            \/ req.setup = "strong_short" /\ loc.funding.v > -5
    [] c = "ratio" ->
         /\ loc.lsr.ok
         /\ \/ req.setup = "strong_long" /\ loc.lsr.v < 10
            \/ req.setup = "strong_short" /\ loc.lsr.v > 10
    [] c = "liq" -> loc.liqs >= 1
Satisfied == { c \in {"funding", "ratio", "liq"} : Supports(c) }
Enriched == TextFlow /\ Has("fetch_funding")

\* C16: quality_score is the number of satisfied conditions among funding
\* supporting the bias, ratio supporting the bias and a liquidation count of
\* at least 1; it lies in 0..3, a null input adds nothing, a setup other than
\* strong_long / strong_short scores at most 1 (the liquidation term), and
\* the quality gate lets through exactly the scores of at least
\* QUALITY_MIN_SCORE.
Thm_C16 ==
  /\ Enriched =>
       LET q == quality_score(req.setup, loc.funding, loc.lsr, Some(loc.liqs))
       IN  /\ q = Cardinality(Satisfied)
           /\ q \in 0..3
           /\ req.setup \notin {"strong_long", "strong_short"} =>
                q = (IF loc.liqs >= 1 THEN 1 ELSE 0)
           /\ quality_score(req.setup, None, None, None) = 0
           /\ quality_score(req.setup, None, loc.lsr, None) <= 1
           /\ (Has("gates") /\ ~loc.news.block) =>
                (Passed("gates") <=> Cardinality(Satisfied) >= QUALITY_MIN_SCORE)
  /\ quality_score("strong_long", Some(4), Some(9), Some(1)) = 3
  /\ quality_score("neutral", Some(4), Some(9), Some(1)) = 1

\* a short setup with all three conditions met
W_C16 ==
  /\ Returned /\ Enriched
  /\ req.setup = "strong_short"
  /\ Cardinality(Satisfied) = 3

\* ---------------------------------------------------------------------- C17
\* the hours a part of the configuration names: a single hour, an A-B range
\* with both ends, nothing for anything else
HoursOf(part) ==
  LET p  == Strip(part)
      ab == SplitOn(p, "-")
  IN  IF Len(ab) = 1
        THEN IF IsDigit(p) THEN { ToInt(p) } ELSE {}
      ELSE IF Len(ab) = 2 /\ IsDigit(Strip(ab[1])) /\ IsDigit(Strip(ab[2]))
        THEN ToInt(ab[1]) .. ToInt(ab[2])
      ELSE {}
ConfiguredHours ==
  LET parts == SplitOn(FORBIDDEN_UTC_HOURS, ",")
  IN  UNION { HoursOf(parts[i]) : i \in 1..Len(parts) }

\* C17: forbidden_hours is true exactly when the UTC hour is a configured
\* single hour or lies in a configured inclusive A-B range, whatever the
\* comma-separated configuration: the alert is then rejected with
\* forbidden_hours, otherwise it proceeds past the gate, and a rejection
\* leaves the cooldown and dedup state as it was.
Cx_C17 ==
  (Returned /\ TextFlow /\ Has("forbidden_hours")) =>
    IF UtcHour(now) \in ConfiguredHours
      THEN /\ res.status = "WAIT"
           /\ res.reason.msg = "forbidden_hours"
           /\ trace = << Ev("forbidden_hours", FALSE) >>
           /\ _last_sig_time = pre.time
           /\ _last_sig_hash = pre.hash
      ELSE Passed("forbidden_hours")

\* ---------------------------------------------------------------------- C18
\* C18: with requests handled on threads, the check-then-set of the cooldown
\* state is exclusive: of two alerts for one symbol that reach the guard less
\* than COOLDOWN_SECONDS apart, at most one is let through, whatever the
\* interleaving.
Cx_C18 ==
  \A t \in Threads, u \in Threads :
    ( /\ t # u
      /\ thr[t].pc = "returned" /\ thr[u].pc = "returned"
      /\ thr[t].symbol = thr[u].symbol
      /\ thr[t].now <= thr[u].now
      /\ thr[u].now - thr[t].now < COOLDOWN_SECONDS )
    => ~(thr[t].ret = NoReason /\ thr[u].ret = NoReason)

\* ---------------------------------------------------------------------- C19
\* C19: an accepted run of run_signal_flow appends exactly one row to the
\* journal, the row it returns, before any notification is sent; a failed
\* notification leaves the row where it is, and the archive channel is
\* notified only after the primary one.
Thm_C19 ==
  (Returned /\ TextFlow /\ res.status = "OK") =>
    /\ _journal_mem = Append(pre.mem, res.row[1])
    /\ Cardinality(EvAt("append_journal")) = 1
    /\ \A j \in EvAt("append_journal") :
         \A n \in EvAt("notify") \cup EvAt("archive") : j < n
    /\ \A a \in EvAt("archive") : \E n \in EvAt("notify") : n < a
    /\ Passed("append_journal") => csv[Len(csv)] = res.row[1]

\* the primary notification failed, the archive one was still sent after it,
\* and the run is accepted with its row in a journal that already had one
W_C19 ==
  /\ Returned /\ TextFlow /\ res.status = "OK"
  /\ Failed("notify") /\ Has("archive")
  /\ pre.mem # << >>
  /\ _journal_mem[Len(_journal_mem)] = res.row[1]

\* ---------------------------------------------------------------------- C20
\* C20: whatever combination of the funding, ratio, liquidation and news
\* fetches fails, each failure becomes a null or neutral value (no funding,
\* no ratio, no liquidations, a news score of 0 that blocks nothing) and
\* run_signal_flow still ends accepted or rejected by a gate, never in an
\* error; an accepted row carries the values, nulls included.
Thm_C20 ==
  (Returned /\ Enriched) =>
    /\ res.status \in {"OK", "WAIT"}
    /\ Failed("fetch_funding") => loc.funding = None
    /\ Failed("fetch_lsr") => loc.lsr = None
    /\ Failed("fetch_liq") => loc.liqs = 0
    /\ Failed("fetch_news") => loc.news = [news_score |-> 0, block |-> FALSE]
    /\ res.status = "WAIT" =>
         res.reason.msg \in {"negative_news_block", "quality<"}
    /\ res.status = "OK" =>
         /\ res.row[1].funding = loc.funding
         /\ res.row[1].lsr_5m = loc.lsr
         /\ res.row[1].liq_recent = loc.liqs
         /\ res.row[1].news_score = loc.news.news_score

\* funding, liquidations and news all failed and the alert was still accepted
W_C20 ==
  /\ Returned /\ Enriched
  /\ Failed("fetch_funding") /\ Failed("fetch_liq") /\ Failed("fetch_news")
  /\ res.status = "OK"
  /\ res.row[1].funding = None

\* ---------------------------------------------------------------------- C21
\* C21: with alerts handled one after the other and DEDUP_WINDOW_SECONDS <=
\* COOLDOWN_SECONDS, no alert is ever rejected as "DUPLICATE within window":
\* an alert that matches the stored hash inside the dedup window is rejected
\* by the cooldown check before the hash is looked at.  The stored hash of a
\* symbol always carries the time stored for its cooldown.
Thm_C21 ==
  /\ \A s \in DOMAIN _last_sig_hash :
       s \in DOMAIN _last_sig_time /\ _last_sig_time[s] = _last_sig_hash[s].t
  /\ (Returned /\ TextFlow /\ DEDUP_WINDOW_SECONDS <= COOLDOWN_SECONDS) =>
       /\ res.reason.msg # "DUPLICATE within window"
       /\ ( /\ Has("throttle_and_dedup")
            /\ req.symbol \in DOMAIN pre.hash
            /\ pre.hash[req.symbol].h = ReqHash
            /\ now - pre.hash[req.symbol].t < DEDUP_WINDOW_SECONDS )
          => /\ res.status = "WAIT"
             /\ res.reason.msg = "COOLDOWN active"
             /\ res.reason.n = COOLDOWN_SECONDS - (now - pre.hash[req.symbol].t)

\* the alert let through last is repeated inside the dedup window, the window
\* being no longer than the cooldown
W_C21 ==
  /\ Returned /\ TextFlow /\ Has("throttle_and_dedup")
  /\ DEDUP_WINDOW_SECONDS <= COOLDOWN_SECONDS
  /\ req.symbol \in DOMAIN pre.hash
  /\ pre.hash[req.symbol].h = ReqHash
  /\ now - pre.hash[req.symbol].t < DEDUP_WINDOW_SECONDS
  /\ now > pre.hash[req.symbol].t
  /\ res.reason.msg = "COOLDOWN active"

\* ---------------------------------------------------------------------- C22
\* C22: when every enrichment lookup of a run fails (no funding, no ratio,
\* the liquidation fetch made and failed, the news fetch made and failed) and
\* QUALITY_MIN_SCORE >= 1, the alert is rejected with quality<N whatever its
\* setup: nothing is asked of the model, journalled or sent, and the cooldown
\* slot of the symbol is taken all the same.
Thm_C22 ==
  ( /\ Returned /\ Enriched
    /\ Failed("fetch_funding") /\ Failed("fetch_lsr")
    /\ Failed("fetch_liq") /\ Failed("fetch_news")
    /\ QUALITY_MIN_SCORE >= 1 )
  => /\ res = Wait(Reason("quality<", QUALITY_MIN_SCORE))
     /\ ~Has("openai_chat") /\ ~Has("append_journal") /\ ~Has("notify")
     /\ _journal_mem = pre.mem
     /\ Passed("throttle_and_dedup")
     /\ req.symbol \in DOMAIN _last_sig_time
     /\ _last_sig_time[req.symbol] = now
     /\ _last_sig_hash[req.symbol] = [h |-> ReqHash, t |-> now]
     /\ now - LastSigTimeGet(req.symbol) < COOLDOWN_SECONDS

\* a strong_long alert, the most a setup can earn, with all four lookups down
W_C22 ==
  /\ Returned /\ Enriched
  /\ req.setup = "strong_long"
  /\ Failed("fetch_funding") /\ Failed("fetch_lsr")
  /\ Failed("fetch_liq") /\ Failed("fetch_news")
  /\ res.reason.msg = "quality<"
  /\ req.symbol \notin DOMAIN pre.time

\* ---------------------------------------------------------------------- C23
\* C23: after any number n of appends the journal in memory holds min(n, 300)
\* rows, the most recent ones in the order they were appended, and /journal
\* serves its tail; the rows it no longer holds are still in the file, which
\* loses a row only when its own write fails.
Thm_C23 ==
  LET n == Appended
      k == IF n < 300 THEN n ELSE 300
  IN  /\ Len(_journal_mem) = k
      /\ Len(_journal_mem) <= 300
      /\ \A i \in 1..k : _journal_mem[i].ts = now - k + i - 1
      /\ journal_list(0) = _journal_mem
      /\ journal_list(400) = _journal_mem
      /\ k >= 2 => journal_list(2) = << _journal_mem[k - 1], _journal_mem[k] >>
      /\ n > 0 => /\ csv[1] = CsvHeader
                  /\ Len(csv) = 1 + n - odd
                  /\ \A i \in 2..(Len(csv) - 1) : csv[i].ts < csv[i + 1].ts
      /\ (n > 0 /\ odd = 0) => \A i \in 1..n : csv[i + 1].ts = now - n + i - 1

\* more rows appended than the window holds: the oldest is gone from memory
\* and still the first row of the file
W_C23 ==
  /\ Appended > 300
  /\ odd = 0
  /\ Len(_journal_mem) = 300
  /\ csv[2].ts < _journal_mem[1].ts

====
